---- MODULE Spec2Model ----
(***************************************************************************)
(* Model of build_vocab_deck.js: the reconciliation of one class document  *)
(* against the shared chunk library, with card provisioning through the    *)
(* Mochi API and write-to-temporary-then-rename persistence.               *)
(*                                                                         *)
(* JavaScript strings are sequences of one-character strings ("" is <<>>), *)
(* so that trim, replace and localeCompare are computed, not assumed.      *)
(* A sequence holding one multi-character token is a value that is not a   *)
(* string (null/undefined, a number, a non-array).                         *)
(*                                                                         *)
(* Spec is one engine at a time, over runs, kills and edits of the class   *)
(* file; SpecUnion exercises union on its own; SpecTwo is two engines      *)
(* saving to one library file at once.                                     *)
(***************************************************************************)
EXTENDS Integers, Sequences, FiniteSets, TLC

\* ------------------------------------------------------------------ bounds
MaxUnits == 2       \* longest class document the author writes
MaxCards == 2       \* cards the Mochi account accepts before the model stops creating
MaxEdits == 1       \* times the author rewrites the class file between runs

\* ------------------------------------------------------- JavaScript values
Null == <<"null">>            \* null or undefined (a field that is absent)
NonString == <<"number">>     \* a value whose typeof is not "string"
NotArray == << <<"object">> >> \* a value for which Array.isArray is false

IsString(v) == v # Null /\ v # NonString
IsArray(v) == v # NotArray
\* JS truthiness of a string-or-null-or-number value
Truthy(v) == v # Null /\ v # <<>>

Space == " "

RECURSIVE TrimStart(_)
TrimStart(s) ==
    IF s # <<>> /\ Head(s) = Space THEN TrimStart(Tail(s)) ELSE s

RECURSIVE TrimEnd(_)
TrimEnd(s) ==
    IF s # <<>> /\ s[Len(s)] = Space THEN TrimEnd(SubSeq(s, 1, Len(s) - 1)) ELSE s

\* String.prototype.trim
Trim(s) == TrimEnd(TrimStart(s))

\* s.replace(/\s+/g, "_"): every maximal run of whitespace becomes one "_"
RECURSIVE ReplaceWs(_)
ReplaceWs(s) ==
    IF s = <<>> THEN <<>>
    ELSE IF Head(s) = Space THEN <<"_">> \o ReplaceWs(TrimStart(s))
    ELSE <<Head(s)>> \o ReplaceWs(Tail(s))

\* Collation weights of the "en" collator for the characters that occur in
\* chunks: whitespace sorts before letters, letters by alphabet first and
\* lower case before upper case on a tie.
Primary(c) == CASE c = " " -> 1 [] c \in {"a", "A"} -> 2 [] c \in {"b", "B"} -> 3 [] OTHER -> 4
Tertiary(c) == IF c \in {"A", "B"} THEN 1 ELSE 0

Weight(level, c) == IF level = "primary" THEN Primary(c) ELSE Tertiary(c)

\* The order of two strings by their weights at one level
RECURSIVE LexCompare(_, _, _)
LexCompare(level, s, t) ==
    IF s = <<>> /\ t = <<>> THEN 0
    ELSE IF s = <<>> THEN -1
    ELSE IF t = <<>> THEN 1
    ELSE IF Weight(level, Head(s)) < Weight(level, Head(t)) THEN -1
    ELSE IF Weight(level, Head(s)) > Weight(level, Head(t)) THEN 1
    ELSE LexCompare(level, Tail(s), Tail(t))

\* a.localeCompare(b, "en")
localeCompare(a, b) ==
    IF LexCompare("primary", a, b) # 0 THEN LexCompare("primary", a, b)
    ELSE LexCompare("tertiary", a, b)

\* [...arr].filter(Boolean)
RECURSIVE FilterBoolean(_)
FilterBoolean(arr) ==
    IF arr = <<>> THEN <<>>
    ELSE IF Truthy(Head(arr)) THEN <<Head(arr)>> \o FilterBoolean(Tail(arr))
    ELSE FilterBoolean(Tail(arr))

\* Array.from(new Set(arr)): first occurrences, in insertion order
RECURSIVE Dedup(_, _)
Dedup(arr, seen) ==
    IF arr = <<>> THEN <<>>
    ELSE IF Head(arr) \in seen THEN Dedup(Tail(arr), seen)
    ELSE <<Head(arr)>> \o Dedup(Tail(arr), seen \cup {Head(arr)})

\* A faulty union that forgets .filter(Boolean) (C13 must notice it)
unionKeepingFalsy(a, b) == Dedup(a \o b, {})

union(a, b) == Dedup(FilterBoolean(a \o b), {})

\* ------------------------------------------------------------- documents
Entry(c, id, vs, m, o) == [chunk |-> c, id |-> id, variants |-> vs, meaning |-> m, obs |-> o]

\* A class document { class, entries }: type is "object" or what else the
\* JSON text denotes, isArray is Array.isArray(doc.entries).
ClassDoc(cls, es) == [type |-> "object", class |-> cls, isArray |-> TRUE, entries |-> es]

\* The library { version, entries }
Library(es) == [type |-> "object", version |-> 1, isArray |-> TRUE, entries |-> es]

emptyLibrary == Library(<<>>)

\* The per-entry checks that validateClassDoc and validateLibrary share
EntryShapeBad(e) ==
    \/ ~Truthy(e.chunk) \/ ~IsString(e.chunk)
    \/ ~IsString(e.id)
    \/ ~IsArray(e.variants)

\* The seen-set of both validators: two entries whose trimmed chunks are equal
DuplicateKey(es) ==
    \E j, k \in DOMAIN es : j < k /\ Trim(es[j].chunk) = Trim(es[k].chunk)

\* A faulty validateClassDoc that lacks the duplicate check (C10 must notice it)
validateClassDocLax(doc) ==
    /\ doc.type = "object"
    /\ Truthy(doc.class) /\ IsString(doc.class)
    /\ doc.isArray
    /\ \A k \in DOMAIN doc.entries :
          /\ ~EntryShapeBad(doc.entries[k])
          /\ doc.entries[k].obs # Null => IsString(doc.entries[k].obs)
          /\ doc.entries[k].meaning # Null => IsString(doc.entries[k].meaning)

\* validateClassDoc(doc) returns normally (it throws otherwise)
validateClassDoc(doc) ==
    /\ doc.type = "object"
    /\ Truthy(doc.class) /\ IsString(doc.class)
    /\ doc.isArray
    /\ \A k \in DOMAIN doc.entries :
          /\ ~EntryShapeBad(doc.entries[k])
          /\ doc.entries[k].obs # Null => IsString(doc.entries[k].obs)
          /\ doc.entries[k].meaning # Null => IsString(doc.entries[k].meaning)
    /\ ~DuplicateKey(doc.entries)

\* validateLibrary(lib): the library it returns, or that it throws
validateLibrary(lib) ==
    IF lib.type # "object" \/ ~lib.isArray
    THEN [throws |-> FALSE, value |-> emptyLibrary]
    ELSE IF (\E k \in DOMAIN lib.entries : EntryShapeBad(lib.entries[k])) \/ DuplicateKey(lib.entries)
    THEN [throws |-> TRUE, value |-> emptyLibrary]
    ELSE [throws |-> FALSE, value |-> lib]

\* indexByChunk(entries): the Map from chunk to entry, as the position of the
\* entry (a later entry with the same chunk replaces an earlier one)
indexByChunk(entries) ==
    [c \in {entries[k].chunk : k \in DOMAIN entries} |->
        CHOOSE k \in DOMAIN entries :
            /\ entries[k].chunk = c
            /\ \A j \in DOMAIN entries : entries[j].chunk = c => j <= k]

\* entries.sort((a, b) => a.chunk.localeCompare(b.chunk, "en")): a stable sort
RECURSIVE InsertSorted(_, _)
InsertSorted(sorted, e) ==
    IF sorted = <<>> THEN <<e>>
    ELSE IF localeCompare(sorted[Len(sorted)].chunk, e.chunk) <= 0 THEN Append(sorted, e)
    ELSE Append(InsertSorted(SubSeq(sorted, 1, Len(sorted) - 1), e), sorted[Len(sorted)])

RECURSIVE SortPrefix(_, _)
SortPrefix(entries, n) ==
    IF n = 0 THEN <<>> ELSE InsertSorted(SortPrefix(entries, n - 1), entries[n])

\* A faulty sort that leaves the entries as they are (C9 must notice it)
sortEntriesNone(entries) == entries

sortEntries(entries) == SortPrefix(entries, Len(entries))

\* --------------------------------------------------------------- Mochi API
Digits == <<"1", "2", "3", "4", "5", "6", "7", "8", "9">>

\* The id of the n-th card the Mochi account creates: ids are never reused
CardId(n) == <<Digits[n]>>

\* createVocabCard under DRY_RUN returns `DRY_CARD_${chunk.replace(/\s+/g, "_")}`
DryCardId(chunk) == <<"D", "R", "Y", "_", "C", "A", "R", "D", "_">> \o ReplaceWs(chunk)

\* ------------------------------------------------------------------- files
Paths == {"class", "class.tmp", "lib", "lib.tmp"}

\* A faulty saveJsonAtomic that writes the file in place (C8 must notice it)
tmpInPlace(filePath) == filePath

\* `${filePath}.tmp`
tmpOf(filePath) == IF filePath = "class" THEN "class.tmp" ELSE "lib.tmp"

NoDoc == [type |-> "none", isArray |-> FALSE, entries |-> <<>>]
Missing == [st |-> "missing", doc |-> NoDoc]
Partial == [st |-> "partial", doc |-> NoDoc]
\* A file holding the whole of JSON.stringify(obj): the text denotes obj
Full(obj) == [st |-> "full", doc |-> obj]

\* ------------------------------------------------- the per-unit decisions
LibHas(entries, chunk) == chunk \in DOMAIN indexByChunk(entries)

\* libMap.get(chunk), when it is defined
LibGet(entries, chunk) == entries[indexByChunk(entries)[chunk]]

\* A faulty conflict check that never fires (C3 must notice it)
ConflictsNever(entries, entry) == FALSE

\* The conflict check: the class entry carries an id that disagrees with the library's
Conflicts(entries, entry) ==
    /\ LibHas(entries, entry.chunk)
    /\ Truthy(LibGet(entries, entry.chunk).id)
    /\ Truthy(entry.id)
    /\ Truthy(Trim(entry.id))
    /\ entry.id # LibGet(entries, entry.chunk).id

\* The library already has an id for the chunk
IsCacheHit(entries, entry) ==
    /\ LibHas(entries, entry.chunk)
    /\ Truthy(LibGet(entries, entry.chunk).id)
    /\ Truthy(Trim(LibGet(entries, entry.chunk).id))

\* The cache-hit branch's effect on lib.entries: keep variants up to date
Backfilled(entries, entry) ==
    [entries EXCEPT ![indexByChunk(entries)[entry.chunk]].variants = union(@, entry.variants)]

\* A faulty cache-miss branch that forgets libEntry.id = card.id (C6 must notice it)
RegisteredWithoutId(entries, entry, cardId) ==
    IF LibHas(entries, entry.chunk)
    THEN [entries EXCEPT ![indexByChunk(entries)[entry.chunk]].variants = union(@, entry.variants)]
    ELSE Append(entries, Entry(entry.chunk, <<>>, union(<<>>, entry.variants), entry.meaning, entry.obs))

\* A faulty cache-miss branch that keeps the meaning and obs an entry already has
RegisteredKeepingMeaning(entries, entry, cardId) ==
    IF LibHas(entries, entry.chunk)
    THEN [entries EXCEPT ![indexByChunk(entries)[entry.chunk]] =
             [@ EXCEPT !.id = cardId, !.variants = union(@, entry.variants)]]
    ELSE Append(entries, Entry(entry.chunk, cardId, union(<<>>, entry.variants), entry.meaning, entry.obs))

\* The cache-miss branch's effect on lib.entries, the card's id given
Registered(entries, entry, cardId) ==
    LET inLib == LibHas(entries, entry.chunk)
        libEntry == IF inLib THEN LibGet(entries, entry.chunk)
                    ELSE Entry(entry.chunk, <<>>, <<>>, Null, Null)
        updated == [libEntry EXCEPT
                        !.id = cardId,
                        !.variants = union(libEntry.variants, entry.variants),
                        !.meaning = IF entry.meaning # Null THEN entry.meaning ELSE @,
                        !.obs = IF entry.obs # Null THEN entry.obs ELSE @]
    IN  IF inLib THEN [entries EXCEPT ![indexByChunk(entries)[entry.chunk]] = updated]
        ELSE Append(entries, updated)

\* ------------------------------------------------------------------ inputs
Chunks == {<<"a">>, <<" ", "a">>, <<"B">>}
AuthoredIds == {<<>>, <<" ">>, <<"X">>}
Payloads ==
    { [variants |-> <<>>, meaning |-> Null, obs |-> Null],
      [variants |-> << <<"v">>, <<>>, <<"v">> >>, meaning |-> <<"m">>, obs |-> <<"o">>] }
ClassName == <<"0", "0", "1">>

BarePayload == [variants |-> <<>>, meaning |-> Null, obs |-> Null]

\* The units the author writes: any chunk with any id, and with variants and a
\* meaning where the id is still to be assigned
Units ==
    {Entry(c, id, BarePayload.variants, BarePayload.meaning, BarePayload.obs) : c \in Chunks, id \in AuthoredIds}
    \cup {Entry(c, <<>>, p.variants, p.meaning, p.obs) : c \in Chunks, p \in Payloads}

SeqsUpTo(S, n) == UNION {[1..k -> S] : k \in 0..n}

PlainUnit(c) == Entry(c, <<>>, <<>>, Null, Null)

\* The units of the documents that hold several: new, or with an id the author knows
ListedUnits == {Entry(c, id, <<>>, Null, Null) : c \in Chunks, id \in {<<>>, <<"X">>}}

\* Documents the author writes that name each chunk once: one unit of any kind,
\* or up to MaxUnits listed units
WellFormedDocs ==
    {ClassDoc(ClassName, <<u>>) : u \in Units}
    \cup {ClassDoc(ClassName, es) : es \in {s \in SeqsUpTo(ListedUnits, MaxUnits) : ~DuplicateKey(s)}}

\* Documents the author writes that break one rule each
MalformedDocs ==
    { [type |-> "other", class |-> Null, isArray |-> FALSE, entries |-> <<>>],
      ClassDoc(Null, <<>>), ClassDoc(<<>>, <<>>), ClassDoc(NonString, <<>>),
      [type |-> "object", class |-> ClassName, isArray |-> FALSE, entries |-> <<>>],
      ClassDoc(ClassName, <<[PlainUnit(<<"a">>) EXCEPT !.chunk = Null]>>),
      ClassDoc(ClassName, <<[PlainUnit(<<"a">>) EXCEPT !.chunk = <<>>]>>),
      ClassDoc(ClassName, <<[PlainUnit(<<"a">>) EXCEPT !.chunk = NonString]>>),
      ClassDoc(ClassName, <<[PlainUnit(<<"a">>) EXCEPT !.id = NonString]>>),
      ClassDoc(ClassName, <<[PlainUnit(<<"a">>) EXCEPT !.id = Null]>>),
      ClassDoc(ClassName, <<[PlainUnit(<<"a">>) EXCEPT !.variants = NotArray]>>),
      ClassDoc(ClassName, <<[PlainUnit(<<"a">>) EXCEPT !.meaning = NonString]>>),
      ClassDoc(ClassName, <<[PlainUnit(<<"a">>) EXCEPT !.obs = NonString]>>),
      ClassDoc(ClassName, <<PlainUnit(<<"a">>), PlainUnit(<<"a">>)>>),
      ClassDoc(ClassName, <<PlainUnit(<<"B">>), PlainUnit(<<"a">>), PlainUnit(<<" ", "a">>)>>) }

ClassDocs == WellFormedDocs \cup MalformedDocs

\* Documents the author replaces the class file by between runs (the next class's
\* plan): one unit, new or with an id the author knows
RewrittenDocs ==
    {ClassDoc(ClassName, <<Entry(c, id, <<>>, Null, Null)>>) : c \in Chunks, id \in {<<>>, <<"X">>}}

\* Libraries left by earlier classes: valid, and sorted as every finished run leaves them
SeedLibraries ==
    { Missing,
      Full(Library(<<Entry(<<"a">>, <<>>, <<>>, <<"n">>, Null),
                     Entry(<<"B">>, <<"Y">>, << <<"w">> >>, Null, Null)>>)) }

\* ------------------------------------------------------------------- state
VARIABLES
    fs,               \* the files: path -> [st, doc]
    cards,            \* number of cards the Mochi account holds
    decks,            \* the Mochi account has the deck `${class}_V`
    pc,               \* where main() is: "idle" (never run), ..., "exited"
    DRY_RUN,          \* process.env.DRY_RUN === "1" of the current or last run
    classDoc, lib,    \* main's classDoc and lib
    deck,             \* main's deck: "none", "real" or "dry" (DRY_DECK_...)
    i,                \* position of the for-of loop in classDoc.entries
    final,            \* the save in progress is the one after the loop
    skippedExisting, created,
    outcome,          \* how the last run ended, "running" while it runs
    deckCalls,        \* requests of this run to /decks
    issued,           \* position -> id createVocabCard returned in this run (<<>> if none)
    cardsFor,         \* chunk -> cards the Mochi account holds for it
    prev,             \* the run before this one, on the same class file: "ok" (it ended
                      \* well and saved), "interrupted" (an error or a kill ended it), "other"
    edits,            \* times the author rewrote the class file
    arrA, arrB,       \* union's arguments, where union is exercised on its own
    arrU,             \* what union returned
    upc,              \* the exercise of union: "off", "call", "returned", "again"
    inst,             \* two engines at once: instance -> where its save of the library is
    lastRename        \* the instance whose rename of the library's temporary file succeeded last

vars == <<fs, cards, decks, pc, DRY_RUN, classDoc, lib, deck, i, final, skippedExisting,
          created, outcome, deckCalls, issued, cardsFor, prev, edits, arrA, arrB, arrU, upc,
          inst, lastRename>>

unionVars == <<arrA, arrB, arrU, upc>>
twoVars == <<inst, lastRename>>

\* What main, run alone, never touches
side == <<unionVars, twoVars>>

Instances == {1, 2}

UnionOff == arrA = <<>> /\ arrB = <<>> /\ arrU = <<>> /\ upc = "off"
TwoOff ==
    /\ inst = [p \in Instances |-> [pc |-> "off", doc |-> emptyLibrary, saves |-> 0, io |-> "clean", fdAt |-> "none"]]
    /\ lastRename = 0

NoClassDoc == ClassDoc(ClassName, <<>>)

Init ==
    /\ \E d \in ClassDocs, l \in SeedLibraries :
          fs = [p \in Paths |-> IF p = "class" THEN Full(d) ELSE IF p = "lib" THEN l ELSE Missing]
    /\ cards = 0
    /\ decks = FALSE
    /\ pc = "idle"
    /\ DRY_RUN = FALSE
    /\ classDoc = NoClassDoc
    /\ lib = emptyLibrary
    /\ deck = "none"
    /\ i = 1
    /\ final = FALSE
    /\ skippedExisting = <<>>
    /\ created = 0
    /\ outcome = "none"
    /\ deckCalls = 0
    /\ issued = <<>>
    /\ cardsFor = [c \in Chunks |-> 0]
    /\ prev = "other"
    /\ edits = 0
    /\ UnionOff
    /\ TwoOff

Stopped == pc \in {"idle", "exited"}

\* The process ends (main's rejection reaches process.exit(1), main returns,
\* or the process is killed): its memory is gone, its output stays on the terminal
Exit(how) ==
    /\ pc' = "exited"
    /\ outcome' = how
    /\ i' = IF how = "conflict" THEN i ELSE 1
    /\ issued' = IF how \in {"ok", "conflict"} THEN issued ELSE <<>>
    /\ created' = IF how = "ok" THEN created ELSE 0
    /\ skippedExisting' = IF how = "ok" THEN skippedExisting ELSE <<>>
    /\ classDoc' = NoClassDoc
    /\ lib' = emptyLibrary
    /\ deck' = "none"
    /\ final' = FALSE

\* The author rewrites the class file while no run is active; what the last run
\* left on the terminal is about another document from here on
EditClassDoc(d) ==
    /\ Stopped
    /\ edits < MaxEdits
    /\ fs["class"] # Full(d)
    /\ fs' = [fs EXCEPT !["class"] = Full(d)]
    /\ edits' = edits + 1
    /\ pc' = "idle"
    /\ outcome' = "none"
    /\ DRY_RUN' = FALSE
    /\ i' = 1
    /\ skippedExisting' = <<>>
    /\ created' = 0
    /\ deckCalls' = 0
    /\ issued' = <<>>
    /\ prev' = "other"
    /\ classDoc' = NoClassDoc
    /\ lib' = emptyLibrary
    /\ deck' = "none"
    /\ final' = FALSE
    /\ UNCHANGED <<cards, decks, cardsFor>>
    /\ UNCHANGED side

\* node build_vocab_deck.js <class file>: load the class document and validate it
StartRun(dry) ==
    /\ Stopped
    /\ DRY_RUN' = dry
    /\ prev' = IF outcome = "ok" /\ ~DRY_RUN THEN "ok"
               ELSE IF outcome \in {"none", "ok", "validationError"} THEN "other"
               ELSE "interrupted"
    /\ i' = 1
    /\ skippedExisting' = <<>>
    /\ created' = 0
    /\ deckCalls' = 0
    /\ final' = FALSE
    /\ deck' = "none"
    /\ lib' = emptyLibrary
    /\ IF fs["class"].st # "full"
       THEN /\ pc' = "exited" /\ outcome' = "loadError"
            /\ classDoc' = NoClassDoc /\ issued' = <<>>
       ELSE IF ~validateClassDoc(fs["class"].doc)
       THEN /\ pc' = "exited" /\ outcome' = "validationError"
            /\ classDoc' = NoClassDoc /\ issued' = <<>>
       ELSE /\ pc' = "loadLib" /\ outcome' = "running"
            /\ classDoc' = fs["class"].doc
            /\ issued' = [k \in DOMAIN fs["class"].doc.entries |-> <<>>]
    /\ UNCHANGED <<fs, cards, decks, cardsFor, edits>>
    /\ UNCHANGED side

\* lib = validateLibrary(await loadJson(libPath)), emptyLibrary() on any throw
LoadLibrary ==
    /\ pc = "loadLib"
    /\ lib' = IF fs["lib"].st = "full" THEN validateLibrary(fs["lib"].doc).value ELSE emptyLibrary
    /\ pc' = "findDeck"
    /\ UNCHANGED <<fs, cards, decks, DRY_RUN, classDoc, deck, i, final, skippedExisting,
                   created, outcome, deckCalls, issued, cardsFor, prev, edits>>
    /\ UNCHANGED side

\* deck = await findDeckByName(deckName)
FindDeck ==
    /\ pc = "findDeck"
    /\ deckCalls' = deckCalls + 1
    /\ IF decks THEN deck' = "real" /\ pc' = "loop" ELSE deck' = "none" /\ pc' = "createDeck"
    /\ UNCHANGED <<fs, cards, decks, DRY_RUN, classDoc, lib, i, final, skippedExisting,
                   created, outcome, issued, cardsFor, prev, edits>>
    /\ UNCHANGED side

\* deck = await createDeck(...)
CreateDeck ==
    /\ pc = "createDeck"
    /\ IF DRY_RUN
       THEN deck' = "dry" /\ UNCHANGED <<decks, deckCalls>>
       ELSE deck' = "real" /\ decks' = TRUE /\ deckCalls' = deckCalls + 1
    /\ pc' = "loop"
    /\ UNCHANGED <<fs, cards, DRY_RUN, classDoc, lib, i, final, skippedExisting,
                   created, outcome, issued, cardsFor, prev, edits>>
    /\ UNCHANGED side

\* A request for the deck fails: mochi() throws and main rejects
MochiFails ==
    /\ \/ pc = "findDeck"
       \/ pc = "createDeck" /\ ~DRY_RUN
    /\ Exit("apiError")
    /\ UNCHANGED <<fs, cards, decks, DRY_RUN, deckCalls, cardsFor, prev, edits>>
    /\ UNCHANGED side

InLoop == pc = "loop" /\ i <= Len(classDoc.entries)

\* A faulty engine that counts the card before the request is answered
ProvisionFailsCounted ==
    /\ InLoop /\ ~DRY_RUN
    /\ ~Conflicts(lib.entries, classDoc.entries[i])
    /\ ~IsCacheHit(lib.entries, classDoc.entries[i])
    /\ pc' = "exited"
    /\ outcome' = "provisionError"
    /\ created' = created + 1
    /\ UNCHANGED <<fs, cards, decks, DRY_RUN, classDoc, lib, deck, i, final, skippedExisting,
                   deckCalls, issued, cardsFor, prev, edits>>
    /\ UNCHANGED side

\* await createVocabCard(...) throws: main rejects at line 239, before any
\* assignment of the cache-miss branch; what main held is what it held before
ProvisionFails ==
    /\ InLoop /\ ~DRY_RUN
    /\ ~Conflicts(lib.entries, classDoc.entries[i])
    /\ ~IsCacheHit(lib.entries, classDoc.entries[i])
    /\ pc' = "exited"
    /\ outcome' = "provisionError"
    /\ UNCHANGED <<fs, cards, decks, DRY_RUN, classDoc, lib, deck, i, final, skippedExisting,
                   created, deckCalls, issued, cardsFor, prev, edits>>
    /\ UNCHANGED side

\* A faulty engine that tidies the unit's chunk when it sets its id
WithIdTrimmed(doc, k, id) == [doc EXCEPT !.entries[k].id = id, !.entries[k].chunk = Trim(@)]

\* entry.id = ... on the k-th unit of the class document
WithId(doc, k, id) == [doc EXCEPT !.entries[k].id = id]

\* The conflict check throws
Conflict ==
    /\ InLoop
    /\ Conflicts(lib.entries, classDoc.entries[i])
    /\ Exit("conflict")
    /\ UNCHANGED <<fs, cards, decks, DRY_RUN, deckCalls, cardsFor, prev, edits>>
    /\ UNCHANGED side

\* The library has the id: backfill, union the variants, continue
CacheHit ==
    /\ InLoop
    /\ ~Conflicts(lib.entries, classDoc.entries[i])
    /\ IsCacheHit(lib.entries, classDoc.entries[i])
    /\ classDoc' = WithId(classDoc, i, LibGet(lib.entries, classDoc.entries[i].chunk).id)
    /\ lib' = [lib EXCEPT !.entries = Backfilled(lib.entries, classDoc.entries[i])]
    /\ skippedExisting' = Append(skippedExisting, classDoc.entries[i].chunk)
    /\ i' = i + 1
    /\ UNCHANGED <<fs, cards, decks, pc, DRY_RUN, deck, final, created, outcome, deckCalls,
                   issued, cardsFor, prev, edits>>
    /\ UNCHANGED side

\* A faulty engine that leaves the saves to the end of the run
CheckpointsNever(dry) == FALSE

\* if (!DRY_RUN) after a card: the two saves follow
Checkpoints(dry) == ~dry

\* A faulty engine that saves the library before the class document
SaveOrderLibFirst == <<"lib", "class">>

\* The saves of a checkpoint, in the order main awaits them
SaveOrder == <<"class", "lib">>

Cap(path) == IF path = "class" THEN "Class" ELSE "Lib"

\* createVocabCard returns a card; its id goes into the class entry and the library
CreateCard ==
    /\ InLoop
    /\ ~Conflicts(lib.entries, classDoc.entries[i])
    /\ ~IsCacheHit(lib.entries, classDoc.entries[i])
    /\ DRY_RUN \/ cards < MaxCards
    /\ LET entry == classDoc.entries[i]
           cardId == IF DRY_RUN THEN DryCardId(entry.chunk) ELSE CardId(cards + 1)
       IN  /\ classDoc' = WithId(classDoc, i, cardId)
           /\ lib' = [lib EXCEPT !.entries = Registered(lib.entries, entry, cardId)]
           /\ issued' = [issued EXCEPT ![i] = cardId]
           /\ IF DRY_RUN
              THEN UNCHANGED <<cards, cardsFor>>
              ELSE cards' = cards + 1 /\ cardsFor' = [cardsFor EXCEPT ![entry.chunk] = @ + 1]
    /\ created' = created + 1
    /\ IF Checkpoints(DRY_RUN)
       THEN pc' = "write" \o Cap(SaveOrder[1]) /\ i' = i
       ELSE pc' = "loop" /\ i' = i + 1
    /\ UNCHANGED <<fs, decks, DRY_RUN, deck, final, skippedExisting, outcome, deckCalls,
                   prev, edits>>
    /\ UNCHANGED side

\* After the loop: sort the library, then the last save (or, under DRY_RUN, the end)
SortLibrary ==
    /\ pc = "loop"
    /\ i > Len(classDoc.entries)
    /\ IF DRY_RUN
       THEN /\ Exit("ok")
       ELSE /\ lib' = [lib EXCEPT !.entries = sortEntries(lib.entries)]
            /\ pc' = "write" \o Cap(SaveOrder[1])
            /\ final' = TRUE
            /\ UNCHANGED <<classDoc, deck, outcome, i, skippedExisting, created, issued>>
    /\ UNCHANGED <<fs, cards, decks, DRY_RUN, deckCalls, cardsFor, prev, edits>>
    /\ UNCHANGED side

Saved(path) == IF path = "class" THEN classDoc ELSE lib

\* saveJsonAtomic, fs.writeFile(tmp, ...): the temporary file is opened and truncated
WriteBegin(path) ==
    /\ pc = "write" \o Cap(path)
    /\ fs' = [fs EXCEPT ![tmpOf(path)] = Partial]
    /\ pc' = "flush" \o Cap(path)
    /\ UNCHANGED <<cards, decks, DRY_RUN, classDoc, lib, deck, i, final, skippedExisting,
                   created, outcome, deckCalls, issued, cardsFor, prev, edits>>
    /\ UNCHANGED side

\* saveJsonAtomic, fs.writeFile(tmp, ...) resolves: the temporary file is complete
WriteEnd(path) ==
    /\ pc = "flush" \o Cap(path)
    /\ fs' = [fs EXCEPT ![tmpOf(path)] = Full(Saved(path))]
    /\ pc' = "rename" \o Cap(path)
    /\ UNCHANGED <<cards, decks, DRY_RUN, classDoc, lib, deck, i, final, skippedExisting,
                   created, outcome, deckCalls, issued, cardsFor, prev, edits>>
    /\ UNCHANGED side

\* saveJsonAtomic, fs.rename(tmp, filePath); the first save is followed by the
\* second, the second by the next unit or by the end of main
Rename(path) ==
    /\ pc = "rename" \o Cap(path)
    /\ fs' = IF tmpOf(path) = path THEN fs
             ELSE [fs EXCEPT ![path] = fs[tmpOf(path)], ![tmpOf(path)] = Missing]
    /\ IF path = SaveOrder[1]
       THEN /\ pc' = "write" \o Cap(SaveOrder[2])
            /\ UNCHANGED <<classDoc, lib, deck, i, final, outcome, skippedExisting, created, issued>>
       ELSE IF final
       THEN /\ Exit("ok")
       ELSE /\ pc' = "loop"
            /\ i' = i + 1
            /\ UNCHANGED <<classDoc, lib, deck, final, outcome, skippedExisting, created, issued>>
    /\ UNCHANGED <<cards, decks, DRY_RUN, deckCalls, cardsFor, prev, edits>>
    /\ UNCHANGED side

\* The process is killed at whatever step it has reached
Kill ==
    /\ ~Stopped
    /\ Exit("killed")
    /\ UNCHANGED <<fs, cards, decks, DRY_RUN, deckCalls, cardsFor, prev, edits>>
    /\ UNCHANGED side

Next ==
    \/ \E d \in RewrittenDocs : EditClassDoc(d)
    \/ \E dry \in BOOLEAN : StartRun(dry)
    \/ LoadLibrary
    \/ FindDeck
    \/ CreateDeck
    \/ MochiFails
    \/ ProvisionFails
    \/ Conflict
    \/ CacheHit
    \/ CreateCard
    \/ SortLibrary
    \/ \E path \in {"class", "lib"} : WriteBegin(path) \/ WriteEnd(path) \/ Rename(path)
    \/ Kill

Spec == Init /\ [][Next]_vars

\* --------------------------------------------------- union, on its own
MaxVariants == 2    \* longest array handed to union

\* What an array of variants may hold: validateClassDoc and validateLibrary
\* check that variants is an array, not what is in it
VariantValues == {<<>>, Null, NonString, <<"v">>, <<"w">>}
VariantLists == SeqsUpTo(VariantValues, MaxVariants)

procVars == <<cards, decks, pc, DRY_RUN, classDoc, lib, deck, i, final, skippedExisting,
              created, outcome, deckCalls, issued, cardsFor, prev, edits>>

\* No engine has run and there are no files
MainOff ==
    /\ fs = [p \in Paths |-> Missing]
    /\ cards = 0 /\ decks = FALSE /\ pc = "idle" /\ DRY_RUN = FALSE
    /\ classDoc = NoClassDoc /\ lib = emptyLibrary /\ deck = "none"
    /\ i = 1 /\ final = FALSE /\ skippedExisting = <<>> /\ created = 0
    /\ outcome = "none" /\ deckCalls = 0 /\ issued = <<>>
    /\ cardsFor = [c \in Chunks |-> 0] /\ prev = "other" /\ edits = 0

InitUnion ==
    /\ MainOff
    /\ TwoOff
    /\ arrA \in VariantLists /\ arrB \in VariantLists
    /\ arrU = <<>>
    /\ upc = "call"

\* union(arrA, arrB), as on lines 233 and 244
CallUnion ==
    /\ upc = "call"
    /\ arrU' = union(arrA, arrB)
    /\ upc' = "returned"
    /\ UNCHANGED <<arrA, arrB, fs, procVars, twoVars>>

\* The same unit met again: what union returned is unioned with arrB once more
CallUnionAgain ==
    /\ upc = "returned"
    /\ arrA' = arrU
    /\ arrU' = union(arrU, arrB)
    /\ upc' = "again"
    /\ UNCHANGED <<arrB, fs, procVars, twoVars>>

NextUnion == CallUnion \/ CallUnionAgain

SpecUnion == InitUnion /\ [][NextUnion]_vars

\* ------------------------------------- two engines on one library file
\* Two engines are started together on two class files (one unit each, no
\* library file yet) with the same CHUNK_LIBRARY_FILE. Each has created its
\* card and saves its library twice, after the card and after the loop; the
\* class files are different files and are left out.
SavesOfRun == 2

\* A file written by two writeFile calls at once: bytes of both
Mixed == [st |-> "mixed", doc |-> NoDoc]

InitTwo ==
    /\ MainOff
    /\ UnionOff
    /\ \E cs \in [Instances -> Chunks] :
          inst = [p \in Instances |->
                    [pc |-> "write",
                     doc |-> Library(<<Entry(cs[p], CardId(p), <<>>, Null, Null)>>),
                     saves |-> 0, io |-> "clean", fdAt |-> "none"]]
    /\ lastRename = 0

\* The other engines that are writing the file p opens or writes are disturbed
Disturbed(p, path) ==
    {q \in Instances \ {p} : inst[q].pc = "flush" /\ inst[q].fdAt = path}

\* saveJsonAtomic(libPath, lib) of engine p, fs.writeFile(tmp, ...) opens and
\* truncates `${filePath}.tmp`, the same path for every engine
InstWriteBegin(p) ==
    /\ inst[p].pc = "write"
    /\ fs' = [fs EXCEPT ![tmpOf("lib")] = Partial]
    /\ inst' = [q \in Instances |->
                  IF q = p THEN [inst[p] EXCEPT !.pc = "flush", !.io = "clean", !.fdAt = tmpOf("lib")]
                  ELSE IF q \in Disturbed(p, tmpOf("lib")) THEN [inst[q] EXCEPT !.io = "overtaken"]
                  ELSE inst[q]]
    /\ UNCHANGED <<lastRename, procVars, unionVars>>

\* fs.writeFile of engine p resolves. The file it opened is where a rename has
\* taken it. If another engine wrote it meanwhile it holds p's text or bytes
\* of both; if another engine truncated it meanwhile, p's bytes may have gone
\* before that and the file is what the other engine has made of it
InstWriteEnd(p) ==
    /\ inst[p].pc = "flush"
    /\ IF inst[p].fdAt = "unlinked"
       THEN fs' = fs
       ELSE \E content \in (IF inst[p].io = "clean" THEN {Full(inst[p].doc)}
                             ELSE IF inst[p].io = "disturbed" THEN {Full(inst[p].doc), Mixed}
                             ELSE {Full(inst[p].doc), Mixed, fs[inst[p].fdAt]}) :
               fs' = [fs EXCEPT ![inst[p].fdAt] = content]
    /\ inst' = [q \in Instances |->
                  IF q = p THEN [inst[p] EXCEPT !.pc = "rename"]
                  ELSE IF q \in Disturbed(p, inst[p].fdAt) /\ inst[q].io = "clean"
                  THEN [inst[q] EXCEPT !.io = "disturbed"]
                  ELSE inst[q]]
    /\ UNCHANGED <<lastRename, procVars, unionVars>>

\* fs.rename(tmp, filePath) of engine p: whatever the temporary file holds
\* becomes the library file, and an engine still writing it writes the library file
InstRename(p) ==
    /\ inst[p].pc = "rename"
    /\ fs[tmpOf("lib")].st # "missing"
    /\ fs' = [fs EXCEPT !["lib"] = fs[tmpOf("lib")], ![tmpOf("lib")] = Missing]
    /\ lastRename' = p
    /\ inst' = [q \in Instances |->
                  IF q = p
                  THEN [inst[p] EXCEPT !.saves = @ + 1, !.fdAt = "none",
                                       !.pc = IF inst[p].saves + 1 = SavesOfRun THEN "done" ELSE "write"]
                  ELSE IF q \in Disturbed(p, tmpOf("lib")) THEN [inst[q] EXCEPT !.fdAt = "lib"]
                  ELSE IF q \in Disturbed(p, "lib") THEN [inst[q] EXCEPT !.fdAt = "unlinked"]
                  ELSE inst[q]]
    /\ UNCHANGED <<procVars, unionVars>>

\* fs.rename of engine p finds no temporary file (another engine renamed it):
\* ENOENT, main rejects
InstRenameFails(p) ==
    /\ inst[p].pc = "rename"
    /\ fs[tmpOf("lib")].st = "missing"
    /\ inst' = [inst EXCEPT ![p].pc = "failed"]
    /\ UNCHANGED <<fs, lastRename, procVars, unionVars>>

NextTwo ==
    \E p \in Instances : InstWriteBegin(p) \/ InstWriteEnd(p) \/ InstRename(p) \/ InstRenameFails(p)

SpecTwo == InitTwo /\ [][NextTwo]_vars

\* ---------------------------------------------------------------- claims
ClassFile == fs["class"].doc.entries
LibFile == fs["lib"].doc.entries
ClassFileNext == fs'["class"].doc.entries
LibFileNext == fs'["lib"].doc.entries
IssuedIds == {CardId(n) : n \in 1..cards}

\* C1: createVocabCard creates at most one card for each chunk, over all the
\* runs against one library file, reruns after aborted or killed runs included.
C1_AtMostOneCardPerChunk == \A c \in Chunks : cardsFor[c] <= 1

\* C2: a run on the class document and the library that a successful run has
\* just saved creates no card (created stays 0), changes no unit's id and,
\* when it ends, has recorded every chunk of the document as skipped.
C2_RerunIdempotent ==
    [][(prev = "ok" /\ ~Stopped) =>
          /\ cards' = cards
          /\ created' = 0
          /\ [k \in DOMAIN ClassFileNext |-> ClassFileNext[k].id] = [k \in DOMAIN ClassFile |-> ClassFile[k].id]
          /\ pc' # "exited" =>
                [k \in DOMAIN classDoc'.entries |-> classDoc'.entries[k].id]
                    = [k \in DOMAIN ClassFile |-> ClassFile[k].id]
          /\ outcome' = "ok" =>
                skippedExisting' = [k \in DOMAIN ClassFile |-> ClassFile[k].chunk]]_vars

\* The library the run works on (the one it loaded, with the changes made for
\* the units before this one) has, for the chunk of the unit the loop is at, a
\* non-empty id other than the unit's
LibraryDisagrees ==
    \E k \in DOMAIN lib.entries :
        /\ lib.entries[k].chunk = classDoc.entries[i].chunk
        /\ lib.entries[k].id # <<>>
        /\ lib.entries[k].id # classDoc.entries[i].id

\* What a conflict at unit i leaves: nothing written, no card created, no id
\* issued for unit i or a later one, and what was saved for the units before i
\* (the ids issued for them, unless the run is a dry run that saves nothing)
\* still in both files
ConflictRefused ==
    /\ outcome' = "conflict" /\ pc' = "exited" /\ i' = i
    /\ fs' = fs /\ cards' = cards
    /\ \A j \in DOMAIN issued' :
          issued'[j] # <<>> =>
             /\ j < i
             /\ ~DRY_RUN =>
                   /\ ClassFile[j].id = issued'[j]
                   /\ \E k \in DOMAIN LibFile :
                         LibFile[k].chunk = ClassFile[j].chunk /\ LibFile[k].id = issued'[j]

\* C3 (as amended): when the unit the loop is at carries an id that is not
\* blank and the library holds a different non-empty id for its chunk, the run
\* (unless it is killed first) aborts with a conflict at that unit, with no
\* card created for it or a later unit, no file written, and the files still
\* holding what was saved for the units before it.
C3_ConflictRefusal ==
    [][(InLoop /\ Trim(classDoc.entries[i].id) # <<>> /\ LibraryDisagrees) =>
          (outcome' = "killed" \/ ConflictRefused)]_vars

\* C3 as stated: the same for every unit whose id is non-empty.
C3_ConflictRefusal_AsStated ==
    [][(InLoop /\ classDoc.entries[i].id # <<>> /\ LibraryDisagrees) =>
          (outcome' = "killed" \/ ConflictRefused)]_vars

\* C3's case: a conflict at the second unit, after a card was created and
\* saved for the first.
C3_Witness ==
    /\ pc = "exited" /\ outcome = "conflict" /\ ~DRY_RUN
    /\ i = 2 /\ issued[1] # <<>>

\* C4: once the library file holds a non-empty id for a chunk, every later
\* library file holds the same id for that chunk.
C4_LibraryIdImmutable ==
    [][\A k \in DOMAIN LibFile :
          LibFile[k].id # <<>> =>
             \E n \in DOMAIN LibFileNext :
                LibFileNext[n].chunk = LibFile[k].chunk /\ LibFileNext[n].id = LibFile[k].id]_vars

\* C5: every chunk that is in the library file stays in the library file.
C5_LibraryNeverShrinks ==
    [][{LibFile[k].chunk : k \in DOMAIN LibFile}
          \subseteq {LibFileNext[k].chunk : k \in DOMAIN LibFileNext}]_vars

\* Every unit of the class file has a non-empty id, the library file holds that
\* id for the unit's chunk and no other, and a unit for which this run created
\* a card has the id createVocabCard returned
EveryUnitResolved ==
    \A k \in DOMAIN ClassFile :
        /\ ClassFile[k].id # <<>>
        /\ \E n \in DOMAIN LibFile : LibFile[n].chunk = ClassFile[k].chunk
        /\ \A n \in DOMAIN LibFile :
              LibFile[n].chunk = ClassFile[k].chunk => LibFile[n].id = ClassFile[k].id
        /\ issued[k] # <<>> => ClassFile[k].id = issued[k]

\* C6 (as amended): after a successful run that is not a dry run, every unit in
\* the saved class document has a non-empty id, equal to the id the saved
\* library holds for its chunk (and to the id createVocabCard returned, for a
\* unit this run created a card for).
C6_SuccessPostcondition ==
    (pc = "exited" /\ outcome = "ok" /\ ~DRY_RUN) => EveryUnitResolved

\* C6 as stated: the same after every successful run.
C6_SuccessPostcondition_AsStated ==
    (pc = "exited" /\ outcome = "ok") => EveryUnitResolved

\* C6's case: a successful saving run that created a card for one unit and
\* skipped another.
C6_Witness ==
    /\ pc = "exited" /\ outcome = "ok" /\ ~DRY_RUN
    /\ created = 1 /\ Len(skippedExisting) = 1

\* C7: in a rerun after an interrupted run, no card is created for a unit whose
\* id is already in the class file, and that id stays as it is (stated for the
\* ids the engine itself issued and saved).
C7_RerunKeepsSavedIds ==
    [][(prev = "interrupted" /\ ~Stopped) =>
          \A k \in DOMAIN ClassFile :
             ClassFile[k].id \in IssuedIds =>
                /\ ClassFileNext[k].id = ClassFile[k].id
                /\ ~(InLoop /\ i = k /\ cards' = cards + 1)]_vars

\* C8: the class file and the library file never hold a partly written
\* document: a step of a run changes one of them only by installing a
\* completely written copy of the document being saved.
C8_TargetsAlwaysComplete ==
    [][\A p \in {"class", "lib"} :
          /\ fs'[p].st # "partial"
          /\ (fs'[p] # fs[p] /\ ~Stopped) =>
                /\ fs[tmpOf(p)].st = "full"
                /\ fs'[p] = Full(Saved(p))]_vars

\* C8's case: the process was killed while a temporary file was partly
\* written, and the file it was to replace is whole.
C8_Witness ==
    /\ pc = "exited" /\ outcome = "killed"
    /\ fs["lib.tmp"].st = "partial"
    /\ fs["lib"].st = "full" /\ fs["class"].st = "full"

\* The entries are in ascending order of chunk under the engine's comparator
Ascending(entries) ==
    \A k \in 1..(Len(entries) - 1) : localeCompare(entries[k].chunk, entries[k + 1].chunk) <= 0

\* C9 (as amended): after every successful run that is not a dry run, the
\* entries of the saved library are in ascending order of chunk under the
\* engine's comparator.
C9_SortPostcondition ==
    (pc = "exited" /\ outcome = "ok" /\ ~DRY_RUN) => (fs["lib"].st = "full" /\ Ascending(LibFile))

\* C9 as stated: the same after every successful run.
C9_SortPostcondition_AsStated ==
    (pc = "exited" /\ outcome = "ok") => Ascending(LibFile)

\* C9's case: a successful saving run that added two chunks to the library in
\* descending order.
C9_Witness ==
    /\ pc = "exited" /\ outcome = "ok" /\ ~DRY_RUN
    /\ Len(issued) = 2 /\ issued[1] # <<>> /\ issued[2] # <<>>
    /\ Len(LibFile) = 2
    /\ localeCompare(ClassFile[1].chunk, ClassFile[2].chunk) > 0

\* The class document breaks a rule: it is not an object, has no class string
\* or no entries array, or has a unit with no chunk, a non-string id, variants
\* that are no array, a non-string meaning or obs, or a chunk of another unit
Malformed(doc) ==
    \/ doc.type # "object"
    \/ doc.class \in {Null, NonString, <<>>}
    \/ ~doc.isArray
    \/ \E k \in DOMAIN doc.entries :
          \/ doc.entries[k].chunk \in {Null, NonString, <<>>}
          \/ doc.entries[k].id \in {Null, NonString}
          \/ doc.entries[k].variants = NotArray
          \/ doc.entries[k].meaning = NonString
          \/ doc.entries[k].obs = NonString
          \/ \E j \in DOMAIN doc.entries : j # k /\ doc.entries[j].chunk = doc.entries[k].chunk

\* C10: a run on a class document that fails validation ends at once with a
\* validation error: no request to /decks, no card, no file written.
C10_ValidationFirst ==
    [][(Stopped /\ pc' # "idle" /\ Malformed(fs["class"].doc)) =>
          /\ pc' = "exited" /\ outcome' = "validationError"
          /\ fs' = fs /\ cards' = cards /\ decks' = decks
          /\ deckCalls' = 0 /\ created' = 0]_vars

\* C10's case: a run on a malformed class document has ended with a
\* validation error.
C10_Witness ==
    /\ pc = "exited" /\ outcome = "validationError"
    /\ Malformed(fs["class"].doc)

\* C11: when createVocabCard throws for a unit, the run ends there and nothing
\* of that unit is recorded: the class document and the library in memory are
\* what they were (the unit's id, the entry of its chunk), created is not
\* incremented, no file is written, and the files are those of the last
\* checkpoint: the class file has the unit as it was loaded and, once an earlier
\* unit of this run got a card, the library file has the chunk's entry as it was.
C11_FailureLeavesUnitUntouched ==
    [][(outcome = "running" /\ outcome' = "provisionError") =>
          /\ pc' = "exited"
          /\ classDoc' = classDoc /\ lib' = lib /\ issued' = issued
          /\ created' = created
          /\ cards' = cards /\ cardsFor' = cardsFor
          /\ fs' = fs
          /\ ClassFileNext[i].id = classDoc.entries[i].id
          /\ (\E j \in 1..(i - 1) : issued[j] # <<>>) =>
                /\ fs'["lib"].st = "full"
                /\ LibHas(LibFileNext, classDoc.entries[i].chunk) = LibHas(lib.entries, classDoc.entries[i].chunk)
                /\ LibHas(lib.entries, classDoc.entries[i].chunk) =>
                      LibGet(LibFileNext, classDoc.entries[i].chunk) = LibGet(lib.entries, classDoc.entries[i].chunk)
      ]_vars

\* createVocabCard threw for the second unit after the first got its card
C11_Witness ==
    /\ pc = "exited" /\ outcome = "provisionError"
    /\ i = 2 /\ issued[1] # <<>>
    /\ ClassFile[1].id = issued[1]
    /\ created = 1

Elems(arr) == {arr[k] : k \in DOMAIN arr}

\* C12: over any sequence of runs the library file's variants of a chunk only
\* grow: a variant the file has recorded for a chunk is recorded for it in every
\* later library file, and when a run has ended well and saved, every non-empty
\* variant of every unit of the class document is among the variants of the
\* library file's entry for the unit's chunk.
C12_VariantsAccumulate ==
    [][/\ fs["lib"].st = "full" =>
             \A e \in Elems(LibFile) : \A v \in Elems(e.variants) :
                /\ fs'["lib"].st = "full"
                /\ LibHas(LibFileNext, e.chunk)
                /\ v \in Elems(LibGet(LibFileNext, e.chunk).variants)
       /\ (outcome = "running" /\ outcome' = "ok" /\ ~DRY_RUN) =>
             \A u \in Elems(ClassFileNext) : \A v \in Elems(u.variants) :
                Truthy(v) => /\ LibHas(LibFileNext, u.chunk)
                             /\ v \in Elems(LibGet(LibFileNext, u.chunk).variants)
      ]_vars

NoRepeats(arr) == \A j, k \in DOMAIN arr : j # k => arr[j] # arr[k]
FirstIndex(arr, x) == CHOOSE k \in DOMAIN arr : arr[k] = x /\ \A j \in 1..(k - 1) : arr[j] # x

\* arr without its falsy values and without its repetitions, the order kept
Distilled(r, arr) ==
    /\ Elems(r) = {x \in Elems(arr) : Truthy(x)}
    /\ NoRepeats(r)
    /\ \A p, q \in DOMAIN r : p < q => FirstIndex(arr, r[p]) < FirstIndex(arr, r[q])

\* C13: for all arrays A and B (falsy values and repetitions included):
\* union(A, B) and union(B, A) hold the same values; union(A, A) holds the
\* values of union(A, []); union(union(A, B), B) is union(A, B); union([], A)
\* is A without its repetitions and falsy values; and what union returns never
\* holds a value twice nor a falsy value.
C13_UnionLaws ==
    /\ Elems(union(arrA, arrB)) = Elems(union(arrB, arrA))
    /\ Elems(union(arrA, arrA)) = Elems(union(arrA, <<>>))
    /\ union(union(arrA, arrB), arrB) = union(arrA, arrB)
    /\ Distilled(union(<<>>, arrA), arrA)
    /\ upc \in {"returned", "again"} =>
          /\ NoRepeats(arrU)
          /\ \A x \in Elems(arrU) : Truthy(x)
    /\ upc = "again" => arrU = arrA

\* union has returned for arrays with a falsy value and a repeated value
C13_Witness ==
    /\ upc = "returned"
    /\ \E x \in Elems(arrA) : ~Truthy(x)
    /\ ~NoRepeats(arrA \o arrB)
    /\ Len(arrU) = 2

\* C14: the library file never holds two entries whose chunks are equal after
\* trimming, the comparison validateLibrary makes: whatever library a run has
\* saved, validateLibrary accepts it on the next run.
C14_LibraryKeysUnique ==
    fs["lib"].st = "full" =>
        /\ \A j, k \in DOMAIN LibFile : j # k => Trim(LibFile[j].chunk) # Trim(LibFile[k].chunk)
        /\ ~validateLibrary(fs["lib"].doc).throws

\* The unit of this run that got a card last, 0 if none did
LastMiss == IF \E k \in DOMAIN issued : issued[k] # <<>>
            THEN CHOOSE k \in DOMAIN issued : issued[k] # <<>> /\ \A j \in DOMAIN issued : issued[j] # <<>> => j <= k
            ELSE 0

\* What one step of a run does to the two files; everyRun says whether the
\* save after a card is claimed of dry runs too
CheckpointStep(everyRun) ==
    \* a card is followed at once by the save of the class document
    /\ (outcome = "running" /\ outcome' = "running" /\ issued' # issued /\ (everyRun \/ ~DRY_RUN)) =>
          pc' = "writeClass"
    \* the saves begin after a card or after the last unit, and after nothing else
    /\ (pc = "loop" /\ pc' \notin {"loop", "exited"}) =>
          /\ pc' = "writeClass"
          /\ issued' # issued \/ (final' /\ i > Len(classDoc.entries))
    \* a cache hit writes nothing and goes on to the next unit
    /\ (outcome = "running" /\ outcome' = "running" /\ skippedExisting' # skippedExisting) =>
          fs' = fs /\ pc' = "loop"
    \* the class file, then the library file, become what main holds
    /\ (~Stopped /\ fs'["class"] # fs["class"]) => pc = "renameClass" /\ fs'["class"] = Full(classDoc)
    /\ fs'["lib"] # fs["lib"] =>
          pc = "renameLib" /\ fs'["lib"] = Full(lib) /\ fs["class"] = Full(classDoc)
    /\ (pc = "renameLib" /\ pc' = "loop") =>
          fs'["class"] = Full(classDoc') /\ fs'["lib"] = Full(lib')
    \* between checkpoints the files hold what main held at the last card: the ids
    \* of the units up to it, backfilled ones included, and their library entries
    /\ (pc = "loop" /\ ~DRY_RUN /\ LastMiss > 0) =>
          /\ fs["class"].st = "full" /\ fs["lib"].st = "full"
          /\ \A k \in 1..LastMiss :
                /\ ClassFile[k].id = classDoc.entries[k].id
                /\ LibHas(LibFile, ClassFile[k].chunk)
                /\ LibGet(LibFile, ClassFile[k].chunk) = LibGet(lib.entries, ClassFile[k].chunk)
          /\ Len(LibFile) = Len(lib.entries)

\* C15 (amended): in a run that is not a dry run, the class file and then the
\* library file are written right after each unit that got a card and once more
\* after the last unit, never because of a cache hit; so the files hold what main
\* held at the last unit that got a card (backfills and unions of the cache
\* hits before it included) and nothing of the units after it.
C15_CheckpointGranularity == [][CheckpointStep(FALSE)]_vars

\* C15 as stated: the same of every run, dry runs included.
C15_CheckpointGranularity_AsStated == [][CheckpointStep(TRUE)]_vars

\* A checkpoint is complete for a unit that got a card after a cache hit
C15_Witness ==
    /\ pc = "loop" /\ ~DRY_RUN /\ i = 3
    /\ skippedExisting = <<ClassFile[1].chunk>>
    /\ issued[2] # <<>>
    /\ ClassFile[1].id = <<"Y">> /\ ClassFile[2].id = issued[2]
    /\ fs["lib"] = Full(lib)

\* The library entry of the unit's chunk has the unit's meaning and obs, where the unit has them
Refreshed(entries, u) ==
    /\ u.meaning # Null => LibGet(entries, u.chunk).meaning = u.meaning
    /\ u.obs # Null => LibGet(entries, u.chunk).obs = u.obs

GotCard == outcome = "running" /\ outcome' = "running" /\ issued' # issued
WasSkipped == outcome = "running" /\ outcome' = "running" /\ skippedExisting' # skippedExisting

\* C16 (amended): when a run gives a card to a unit whose chunk already has a
\* library entry (one without a usable id) and the unit carries a meaning or
\* an obs, the entry's meaning or obs becomes the unit's; a cache hit leaves
\* the entry's meaning and obs as they are.
C16_MeaningRefresh ==
    [][/\ (GotCard /\ LibHas(lib.entries, classDoc.entries[i].chunk)) =>
             Refreshed(lib'.entries, classDoc.entries[i])
       /\ WasSkipped =>
             /\ LibGet(lib'.entries, classDoc.entries[i].chunk).meaning = LibGet(lib.entries, classDoc.entries[i].chunk).meaning
             /\ LibGet(lib'.entries, classDoc.entries[i].chunk).obs = LibGet(lib.entries, classDoc.entries[i].chunk).obs
      ]_vars

\* C16 as stated: on every encounter of a unit whose chunk has a library
\* entry, with or without an id, the entry's meaning and obs become the unit's.
C16_MeaningRefresh_AsStated ==
    [][((GotCard \/ WasSkipped) /\ LibHas(lib.entries, classDoc.entries[i].chunk)) =>
           Refreshed(lib'.entries, classDoc.entries[i])
      ]_vars

\* The entry the library file has for the chunk, with an older meaning and no
\* obs, has got the unit's meaning and obs in memory
C16_Witness ==
    /\ pc = "writeClass" /\ ~final /\ fs["lib"].st = "full"
    /\ LibHas(LibFile, classDoc.entries[i].chunk)
    /\ LibGet(LibFile, classDoc.entries[i].chunk).meaning = <<"n">>
    /\ LibGet(LibFile, classDoc.entries[i].chunk).obs = Null
    /\ LibGet(lib.entries, classDoc.entries[i].chunk).meaning = <<"m">>
    /\ LibGet(lib.entries, classDoc.entries[i].chunk).obs = <<"o">>

BothStopped == \A p \in Instances : inst[p].pc \in {"done", "failed"}

\* C18: when two engines save to the same library file, interleaved in any
\* way, and both have stopped, the library file holds exactly the library of
\* the engine whose rename succeeded last: never bytes of both, never the
\* library that the other engine wrote.
C18_LastRenameWins ==
    (BothStopped /\ lastRename \in Instances) => fs["lib"] = Full(inst[lastRename].doc)

\* Two class documents that differ at most in the ids of their units
SameButIds(d, e) ==
    /\ d.type = e.type /\ d.isArray = e.isArray /\ d.class = e.class
    /\ Len(d.entries) = Len(e.entries)
    /\ \A k \in DOMAIN d.entries : [d.entries[k] EXCEPT !.id = <<>>] = [e.entries[k] EXCEPT !.id = <<>>]

\* C19: whatever a run makes of the class file has the class, the units, the
\* chunks and their order of the class file before it, and so of the document
\* the run loaded; only ids differ. The same holds of the document in memory.
C19_ClassDocFrame ==
    [][~Stopped =>
          /\ (fs["class"].st = "full" /\ fs'["class"] # fs["class"]) =>
                fs'["class"].st = "full" /\ SameButIds(fs["class"].doc, fs'["class"].doc)
          /\ (~Stopped' /\ fs'["class"].st = "full") => SameButIds(fs'["class"].doc, classDoc')
      ]_vars

\* A unit with variants, a meaning and an obs has got its id in the class file
C19_Witness ==
    /\ pc = "writeLib" /\ ~final
    /\ issued[i] # <<>> /\ ClassFile[i].id = issued[i]
    /\ ClassFile[i].variants # <<>> /\ ClassFile[i].meaning = <<"m">>

\* The units whose id of this run is in the class file / in the library file
InClassFile == {k \in DOMAIN issued : issued[k] # <<>> /\ fs["class"].st = "full" /\ ClassFile[k].id = issued[k]}
InLibFile ==
    {k \in DOMAIN issued : /\ issued[k] # <<>> /\ fs["lib"].st = "full"
                            /\ LibHas(LibFile, classDoc.entries[k].chunk)
                            /\ LibGet(LibFile, classDoc.entries[k].chunk).id = issued[k]}

====
